---------------------------- MODULE Spec2Model ----------------------------
(***************************************************************************)
(* A model of the demonstration programs of go-interview-preparation:      *)
(* the HTTP middleware of the middleware demo, the word counter of the     *)
(* testing demo, the BookStore of the REST demo, the worker pool of the    *)
(* goroutine demo, the user handler, the context demo, the select          *)
(* placeholder, quickSort and the linked-list Queue and Stack.  The demos  *)
(* share no state, so each has its own variables and its own               *)
(* specification; a specification leaves the other demos' variables        *)
(* unchanged.                                                              *)
(***************************************************************************)
EXTENDS Integers, Sequences, FiniteSets, TLC

VARIABLES
    \* the word counter: the string passed, the value returned, called or not
    wcInput, wcResult, wcDone,
    \* the middleware demo: the middlewares given to Chain, the handler Chain is
    \* given, the request served and the recorder after ServeHTTP returned
    chMiddlewares, chBase, chRequest, chOut, chServed,
    \* the rate limiter: the clock (seconds), the closure's requestCounts and
    \* lastResetTime, each handler goroutine (its place, clientIP, count and its
    \* recorder), the addresses counted since the map was last made, in order,
    \* and the number of requests begun
    now, requestCounts, lastResetTime, rlHandlers, rlWindow, rlBegun,
    \* the BookStore: the books map (ID -> title), nextID, the embedded
    \* RWMutex (the goroutine holding the write lock, 0 for none, and those
    \* holding the read lock) and each client goroutine's call in progress
    books, nextID, mu, bsCalls,
    \* the worker pool: main's place and loop counters, the jobs and results
    \* channels, the WaitGroup counter, each worker goroutine, the goroutine
    \* that closes results, the values main has read from results (value ->
    \* times read), how often each job was received, how often results was
    \* closed, and whether the program has panicked
    wpMain, jobs, results, wg, workers, closer, collected, received, closes, panicked,
    \* the user handler: the users map (key -> User), the request handled last
    \* and the response written to it
    users, uhRequest, uhResponse,
    \* the context demo: the time (ms), main's place and the end of its Sleep,
    \* each goroutine (its place and the end of its Sleep), the contexts whose
    \* cancel was called, each context's deadline, whether the done channel of
    \* DoSomethingWithTimeout is closed, the WaitGroup counter of
    \* PropagatingCancellation and the lines printed
    ctxClock, ctxMainPc, ctxMainWake, ctxGo, ctxCancelled, ctxDeadline,
    ctxDoneClosed, ctxWg, ctxPrinted,
    \* the placeholder of concurency-practice: main's place, the senders parked
    \* on each channel and the lines printed
    selPc, selSendq, selPrinted,
    \* quickSort: the slice passed, the slice as it is now, the calls in
    \* progress, whether main's call is running, and whether an index left the
    \* running call's range
    qsInput, qsArr, qsStack, qsState, qsFault,
    \* the Queue: the Nodes allocated, front and rear, the values of a FIFO
    \* sequence after the same calls, and the last call
    quNodes, quFront, quRear, quModel, quLast,
    \* the Stack: the Nodes allocated, top, the values of a LIFO sequence after
    \* the same calls, and the last call
    stNodes, stTop, stModel, stLast

wordVars == <<wcInput, wcResult, wcDone>>
httpVars == <<chMiddlewares, chBase, chRequest, chOut, chServed>>
poolVars ==
    <<wpMain, jobs, results, wg, workers, closer, collected, received, closes, panicked>>
userVars == <<users, uhRequest, uhResponse>>
storeVars == <<books, nextID, mu, bsCalls>>
ctxVars ==
    <<ctxClock, ctxMainPc, ctxMainWake, ctxGo, ctxCancelled, ctxDeadline,
      ctxDoneClosed, ctxWg, ctxPrinted>>
selVars == <<selPc, selSendq, selPrinted>>
qsVars == <<qsInput, qsArr, qsStack, qsState, qsFault>>
quVars == <<quNodes, quFront, quRear, quModel, quLast>>
stVars == <<stNodes, stTop, stModel, stLast>>
listVars == <<qsVars, quVars, stVars>>
rateVars == <<now, requestCounts, lastResetTime, rlHandlers, rlWindow, rlBegun>>

(***************************************************************************)
(* WordCount (the testing demo).  A string is a sequence of characters.    *)
(***************************************************************************)
\* longest string drawn for WordCount, besides the cases of TestWordCount
MaxStrLen == 4

Chars == {"a", "b", " "}

RECURSIVE StringsUpTo(_)
StringsUpTo(n) ==
    IF n = 0 THEN {<<>>}
    ELSE LET shorter == StringsUpTo(n - 1)
         IN shorter \cup {Append(s, c) : s \in {t \in shorter : Len(t) = n - 1}, c \in Chars}

\* the inputs of TestWordCount, character by character
TestWordCountInputs ==
    { <<"h","e","l","l","o"," ","w","o","r","l","d">>,
      <<>>,
      <<"o","n","e","w","o","r","d">>,
      <<" "," "," ","s","p","a","c","e","d"," "," "," ","w","o","r","d","s"," "," "," ">>,
      <<"1"," ","2"," ","3"," ","4"," ","5">> }

\* the for loop of WordCount from index i (0-based, as in the code) with the
\* running count: one more for every space that follows a non-space
RECURSIVE WordCountLoop(_, _, _)
WordCountLoop(s, i, count) ==
    IF i >= Len(s) THEN count
    ELSE WordCountLoop(s, i + 1,
            IF s[i + 1] = " " /\ i > 0 /\ s[i] # " " THEN count + 1 ELSE count)

WordCount(s) ==
    IF Len(s) = 0 THEN 0
    ELSE LET counted  == WordCountLoop(s, 0, 1)
             leading  == IF s[1] = " " THEN counted - 1 ELSE counted
             trailing == IF s[Len(s)] = " " THEN leading - 1 ELSE leading
         IN trailing

\* the call WordCount(wcInput)
CallWordCount ==
    /\ ~wcDone
    /\ wcResult' = WordCount(wcInput)
    /\ wcDone' = TRUE
    /\ UNCHANGED wcInput

WordsIdle == wcInput = <<>> /\ wcResult = 0 /\ wcDone = FALSE


(***************************************************************************)
(* The middleware demo.  A handler is the sequence of its layers, the      *)
(* outermost first and the wrapped handler last.  A response body is the   *)
(* sequence of the words written to it.  A recorder is                     *)
(*   code, wroteHeader : the status (200 until WriteHeader is called) and  *)
(*                       whether WriteHeader has been called               *)
(*   body, header      : the words written and the header map              *)
(*   calls             : the layers entered, in order, each named by its   *)
(*                       height in the handler (the wrapped handler is 1)  *)
(*   panicked          : a panic is propagating out of ServeHTTP           *)
(*   logs              : the lines given to log.Printf                     *)
(***************************************************************************)
\* most middlewares given to one call of Chain
MaxChain == 2

StatusOK == 200
StatusUnauthorized == 401
StatusTooManyRequests == 429
StatusInternalServerError == 500

MiddlewareNames ==
    {"LoggingMiddleware", "AuthMiddleware", "RecoveryMiddleware", "CORSMiddleware",
     "middleware1", "middleware2"}
\* HelloHandler, PanicHandler and the handler of the tests (200, "OK")
HandlerNames == {"HelloHandler", "PanicHandler", "handler"}
Methods == {"GET", "POST", "OPTIONS"}
\* the X-API-Key header of a request; "" is a request without the header
ApiKeys == {"valid-api-key", "invalid-key", ""}
Requests == [Method : Methods, ApiKey : ApiKeys]

CORSHeaders ==
    {"Access-Control-Allow-Origin", "Access-Control-Allow-Methods",
     "Access-Control-Allow-Headers"}
HeaderNames == CORSHeaders \cup {"Content-Type", "X-Content-Type-Options"}

NewRecorder ==
    [code |-> StatusOK, wroteHeader |-> FALSE, body |-> <<>>,
     header |-> [n \in HeaderNames |-> ""], calls |-> <<>>, panicked |-> FALSE,
     logs |-> <<>>]

\* w.WriteHeader(code): the first call decides the status
WriteHeader(st, code) ==
    IF st.wroteHeader THEN st
    ELSE [st EXCEPT !.code = code, !.wroteHeader = TRUE]

\* w.Write(words): writes the header with 200 first when none was written
Write(st, words) ==
    LET started == WriteHeader(st, StatusOK)
    IN [started EXCEPT !.body = @ \o words]

\* http.Error(w, msg, code): plain-text headers, the status, the message and a newline
HttpError(st, msg, code) ==
    LET typed == [st EXCEPT !.header["Content-Type"] = "text/plain; charset=utf-8",
                            !.header["X-Content-Type-Options"] = "nosniff"]
    IN Write(WriteHeader(typed, code), msg \o <<"\n">>)

RECURSIVE ServeHTTP(_, _, _)

LoggingMiddleware(next, st, r) ==
    LET after == ServeHTTP(next, st, r)
    IN IF after.panicked THEN after
       ELSE [after EXCEPT !.logs = Append(@, "request")]

\* AuthMiddleware without the return after http.Error
AuthMiddlewareNoReturn(next, st, r) ==
    IF r.ApiKey # "valid-api-key"
    THEN ServeHTTP(next,
            HttpError(st, <<"Unauthorized:", "Invalid", "API", "key">>, StatusUnauthorized), r)
    ELSE ServeHTTP(next, st, r)

AuthMiddleware(next, st, r) ==
    IF r.ApiKey # "valid-api-key"
    THEN HttpError(st, <<"Unauthorized:", "Invalid", "API", "key">>, StatusUnauthorized)
    ELSE ServeHTTP(next, st, r)

\* RecoveryMiddleware without the deferred recover
RecoveryMiddlewareNoRecover(next, st, r) == ServeHTTP(next, st, r)

RecoveryMiddleware(next, st, r) ==
    LET after == ServeHTTP(next, st, r)
    IN IF after.panicked
       THEN HttpError([after EXCEPT !.panicked = FALSE, !.logs = Append(@, "Panic")],
                      <<"Internal", "Server", "Error">>, StatusInternalServerError)
       ELSE after

\* CORSMiddleware without the return of the preflight branch
CORSMiddlewareNoReturn(next, st, r) ==
    LET allowed ==
            [st EXCEPT !.header["Access-Control-Allow-Origin"] = "*",
                       !.header["Access-Control-Allow-Methods"] =
                            "GET, POST, PUT, DELETE, OPTIONS",
                       !.header["Access-Control-Allow-Headers"] =
                            "Content-Type, Authorization"]
    IN IF r.Method = "OPTIONS" THEN ServeHTTP(next, WriteHeader(allowed, StatusOK), r)
       ELSE ServeHTTP(next, allowed, r)

CORSMiddleware(next, st, r) ==
    LET allowed ==
            [st EXCEPT !.header["Access-Control-Allow-Origin"] = "*",
                       !.header["Access-Control-Allow-Methods"] =
                            "GET, POST, PUT, DELETE, OPTIONS",
                       !.header["Access-Control-Allow-Headers"] =
                            "Content-Type, Authorization"]
    IN IF r.Method = "OPTIONS" THEN WriteHeader(allowed, StatusOK)
       ELSE ServeHTTP(next, allowed, r)

\* middleware1 and middleware2 of TestChain: call next
PassMiddleware(next, st, r) == ServeHTTP(next, st, r)

HelloHandler(st) == Write(st, <<"Hello,", "World!">>)

PanicHandler(st) == [st EXCEPT !.panicked = TRUE]

\* the handler the tests wrap: WriteHeader(200), Write("OK")
OKHandler(st) == Write(WriteHeader(st, StatusOK), <<"OK">>)

\* h.ServeHTTP(w, r) for the handler h = <<layer, ..., wrapped handler>>
ServeHTTP(h, st, r) ==
    LET entered == [st EXCEPT !.calls = Append(@, Len(h))]
        layer   == Head(h)
        next    == Tail(h)
    IN CASE layer = "LoggingMiddleware"  -> LoggingMiddleware(next, entered, r)
         [] layer = "AuthMiddleware"     -> AuthMiddleware(next, entered, r)
         [] layer = "RecoveryMiddleware" -> RecoveryMiddleware(next, entered, r)
         [] layer = "CORSMiddleware"     -> CORSMiddleware(next, entered, r)
         [] layer \in {"middleware1", "middleware2"} -> PassMiddleware(next, entered, r)
         [] layer = "HelloHandler"       -> HelloHandler(entered)
         [] layer = "PanicHandler"       -> PanicHandler(entered)
         [] layer = "handler"            -> OKHandler(entered)

\* middleware(h): the middleware becomes the outermost layer of the handler
Wrap(middleware, h) == <<middleware>> \o h

\* the loop of Chain from the i-th middleware on
RECURSIVE ChainLoop(_, _, _)
ChainLoop(h, middlewares, i) ==
    IF i > Len(middlewares) THEN h
    ELSE ChainLoop(Wrap(middlewares[i], h), middlewares, i + 1)

Chain(h, middlewares) == ChainLoop(h, middlewares, 1)

RECURSIVE MiddlewareLists(_)
MiddlewareLists(n) ==
    IF n = 0 THEN {<<>>}
    ELSE LET shorter == MiddlewareLists(n - 1)
         IN shorter \cup
            {Append(ms, m) : ms \in {l \in shorter : Len(l) = n - 1}, m \in MiddlewareNames}

\* Chain(base, middlewares...).ServeHTTP(httptest.NewRecorder(), r): one
\* request to a new recorder (the layers modelled here keep no state from
\* one request to the next)
ServeChained(middlewares, base, r) ==
    /\ ~chServed
    /\ chMiddlewares' = middlewares
    /\ chBase' = base
    /\ chRequest' = r
    /\ chOut' = ServeHTTP(Chain(<<base>>, middlewares), NewRecorder, r)
    /\ chServed' = TRUE

HttpIdle ==
    /\ chMiddlewares = <<>>
    /\ chBase = "handler"
    /\ chRequest = [Method |-> "GET", ApiKey |-> ""]
    /\ chOut = NewRecorder
    /\ chServed = FALSE

(***************************************************************************)
(* RateLimitMiddleware(requestsPerMinute)(next).  Every request runs the   *)
(* handler in a goroutine of its own; a section of the handler that holds   *)
(* mu (read or write) is one step.  requestCounts is a function whose       *)
(* domain is the set of keys of the map.                                    *)
(***************************************************************************)
\* handler goroutines that may run at once, and requests begun in a run
MaxInflight == 2
MaxRequests == 3
\* seconds the clock advances in one step, and the last instant modelled
TickSeconds == 30
MaxTime == 120

\* time.Minute, in seconds
Minute == 60
\* the limit of TestRateLimitMiddleware
RequestsPerMinute == 2

Goroutines == 1..MaxInflight
\* r.RemoteAddr, "IP:port"
RemoteAddrs ==
    {[IP |-> "127.0.0.1", Port |-> 1234], [IP |-> "127.0.0.1", Port |-> 5678],
     [IP |-> "10.0.0.2", Port |-> 1234]}

\* make(map[string]int)
EmptyCounts == [a \in {} |-> 0]
\* requestCounts[key], 0 for a key the map does not hold
CountOf(counts, key) == IF key \in DOMAIN counts THEN counts[key] ELSE 0

IdleHandler ==
    [pc |-> "idle", clientIP |-> "", count |-> 0, rank |-> 0, w |-> NewRecorder]

\* time.Since(lastResetTime) > time.Minute
ResetDue == now - lastResetTime > Minute

\* the clock advances
Tick ==
    /\ now + TickSeconds <= MaxTime
    /\ now' = now + TickSeconds
    /\ UNCHANGED <<requestCounts, lastResetTime, rlHandlers, rlWindow, rlBegun>>

\* a request from addr reaches the handler: clientIP := r.RemoteAddr
RLBegin(g, addr) ==
    /\ rlHandlers[g].pc = "idle"
    /\ rlBegun < MaxRequests
    /\ rlBegun' = rlBegun + 1
    /\ rlHandlers' = [rlHandlers EXCEPT ![g] =
            [pc |-> "check", clientIP |-> addr, count |-> 0, rank |-> 0, w |-> NewRecorder]]
    /\ UNCHANGED <<now, requestCounts, lastResetTime, rlWindow>>

\* mu.RLock(); if time.Since(lastResetTime) > time.Minute ...; mu.RUnlock()
RLCheck(g) ==
    /\ rlHandlers[g].pc = "check"
    /\ rlHandlers' = [rlHandlers EXCEPT ![g].pc = IF ResetDue THEN "reset" ELSE "count"]
    /\ UNCHANGED <<now, requestCounts, lastResetTime, rlWindow, rlBegun>>

\* RLReset without the second test of the elapsed time under mu.Lock()
RLResetNoRecheck(g) ==
    /\ rlHandlers[g].pc = "reset"
    /\ requestCounts' = EmptyCounts
    /\ lastResetTime' = now
    /\ rlWindow' = <<>>
    /\ rlHandlers' = [rlHandlers EXCEPT ![g].pc = "count"]
    /\ UNCHANGED <<now, rlBegun>>

\* mu.Lock(); if time.Since(lastResetTime) > time.Minute { reset }; mu.Unlock()
RLReset(g) ==
    /\ rlHandlers[g].pc = "reset"
    /\ IF ResetDue
       THEN /\ requestCounts' = EmptyCounts
            /\ lastResetTime' = now
            /\ rlWindow' = <<>>
       ELSE UNCHANGED <<requestCounts, lastResetTime, rlWindow>>
    /\ rlHandlers' = [rlHandlers EXCEPT ![g].pc = "count"]
    /\ UNCHANGED <<now, rlBegun>>

\* mu.Lock(); requestCounts[clientIP]++; count := requestCounts[clientIP]; mu.Unlock()
RLCount(g) ==
    LET key   == rlHandlers[g].clientIP
        count == CountOf(requestCounts, key) + 1
    IN /\ rlHandlers[g].pc = "count"
       /\ requestCounts' =
            [a \in DOMAIN requestCounts \cup {key} |->
                IF a = key THEN count ELSE requestCounts[a]]
       /\ rlWindow' = Append(rlWindow, key)
       /\ rlHandlers' = [rlHandlers EXCEPT ![g].pc = "respond", ![g].count = count,
                ![g].rank = 1 + Cardinality({i \in DOMAIN rlWindow : rlWindow[i] = key})]
       /\ UNCHANGED <<now, lastResetTime, rlBegun>>

\* RLRespond with the comparison count >= requestsPerMinute
RLRespondOffByOne(g) ==
    /\ rlHandlers[g].pc = "respond"
    /\ rlHandlers' = [rlHandlers EXCEPT ![g].pc = "idle", ![g].w =
            IF rlHandlers[g].count >= RequestsPerMinute
            THEN HttpError(@, <<"Rate", "limit", "exceeded">>, StatusTooManyRequests)
            ELSE ServeHTTP(<<"handler">>, @, [Method |-> "GET", ApiKey |-> ""])]
    /\ UNCHANGED <<now, requestCounts, lastResetTime, rlWindow, rlBegun>>

\* if count > requestsPerMinute { http.Error(429); return }; next.ServeHTTP(w, r)
\* with the handler of TestRateLimitMiddleware as next
RLRespond(g) ==
    /\ rlHandlers[g].pc = "respond"
    /\ rlHandlers' = [rlHandlers EXCEPT ![g].pc = "idle", ![g].w =
            IF rlHandlers[g].count > RequestsPerMinute
            THEN HttpError(@, <<"Rate", "limit", "exceeded">>, StatusTooManyRequests)
            ELSE ServeHTTP(<<"handler">>, @, [Method |-> "GET", ApiKey |-> ""])]
    /\ UNCHANGED <<now, requestCounts, lastResetTime, rlWindow, rlBegun>>

\* RateLimitMiddleware(requestsPerMinute) has returned, no request has arrived
RateIdle ==
    /\ now = 0
    /\ requestCounts = EmptyCounts
    /\ lastResetTime = 0
    /\ rlHandlers = [g \in Goroutines |-> IdleHandler]
    /\ rlWindow = <<>>
    /\ rlBegun = 0

(***************************************************************************)
(* BookStore.  A book is kept as where its data came from: "sample" from   *)
(* NewBookStore, "posted" from AddBook, "put" from UpdateBook.  A call of  *)
(* a method goes                                                           *)
(*   idle -> lock -> body (-> write) -> unlock -> idle                     *)
(* where lock waits for the mutex, body and write are the method's         *)
(* accesses to books and nextID, and unlock is the deferred release.       *)
(***************************************************************************)
\* goroutines calling the store at once, and the largest ID it hands out
MaxClients == 2
MaxBookID == 4

\* NewBookStore adds three sample books
SampleBooks == 3

Clients == 1..MaxClients
\* the id of a request: a sample book's, or the largest the store hands out
RequestIDs == {1, MaxBookID}
ReadMethods == {"GetBooks", "GetBook"}
WriteMethods == {"AddBook", "UpdateBook", "DeleteBook"}

IdleCall == [pc |-> "idle", method |-> "GetBooks", id |-> 0, found |-> FALSE]

\* UpdateBook taking the read lock, as the getters do
LockKindUpdateReads(method) ==
    IF method \in {"GetBooks", "GetBook", "UpdateBook"} THEN "read" ELSE "write"

\* the lock a method takes: bs.RLock() or bs.Lock()
LockKind(method) ==
    IF method \in {"GetBooks", "GetBook"} THEN "read" ELSE "write"

\* a goroutine calls a method of the store
BSCall(p, method, id) ==
    /\ bsCalls[p].pc = "idle"
    /\ method = "AddBook" => nextID <= MaxBookID
    /\ bsCalls' = [bsCalls EXCEPT ![p] =
            [pc |-> "lock", method |-> method, found |-> FALSE,
             id |-> IF method \in {"GetBooks", "AddBook"} THEN 0 ELSE id]]
    /\ UNCHANGED <<books, nextID, mu>>

\* bs.RLock() returns when no goroutine holds the write lock; bs.Lock() when
\* no goroutine holds either lock
BSLock(p) ==
    /\ bsCalls[p].pc = "lock"
    /\ IF LockKind(bsCalls[p].method) = "read"
       THEN /\ mu.writer = 0
            /\ mu' = [mu EXCEPT !.readers = @ \cup {p}]
       ELSE /\ mu.writer = 0
            /\ mu.readers = {}
            /\ mu' = [mu EXCEPT !.writer = p]
    /\ bsCalls' = [bsCalls EXCEPT ![p].pc = "body"]
    /\ UNCHANGED <<books, nextID>>

\* GetBooks: copies every book of the map
GetBooksBody(p) ==
    /\ bsCalls[p].pc = "body"
    /\ bsCalls[p].method = "GetBooks"
    /\ bsCalls' = [bsCalls EXCEPT ![p].pc = "unlock", ![p].found = DOMAIN books # {}]
    /\ UNCHANGED <<books, nextID, mu>>

\* GetBook: book, exists := bs.books[id]
GetBookBody(p) ==
    /\ bsCalls[p].pc = "body"
    /\ bsCalls[p].method = "GetBook"
    /\ bsCalls' = [bsCalls EXCEPT ![p].pc = "unlock",
            ![p].found = bsCalls[p].id \in DOMAIN books]
    /\ UNCHANGED <<books, nextID, mu>>

\* AddBook: book.ID = bs.nextID; bs.books[book.ID] = book; bs.nextID++
AddBookBody(p) ==
    /\ bsCalls[p].pc = "body"
    /\ bsCalls[p].method = "AddBook"
    /\ books' = [i \in DOMAIN books \cup {nextID} |->
                    IF i = nextID THEN "posted" ELSE books[i]]
    /\ nextID' = nextID + 1
    /\ bsCalls' = [bsCalls EXCEPT ![p].pc = "unlock", ![p].id = nextID, ![p].found = TRUE]
    /\ UNCHANGED mu

\* UpdateBook and DeleteBook: _, exists := bs.books[id]; return false if not
ExistsCheck(p) ==
    /\ bsCalls[p].pc = "body"
    /\ bsCalls[p].method \in {"UpdateBook", "DeleteBook"}
    /\ bsCalls' = [bsCalls EXCEPT
            ![p].pc = IF bsCalls[p].id \in DOMAIN books THEN "write" ELSE "unlock",
            ![p].found = bsCalls[p].id \in DOMAIN books]
    /\ UNCHANGED <<books, nextID, mu>>

\* UpdateBook: bs.books[id] = book
UpdateBookWrite(p) ==
    /\ bsCalls[p].pc = "write"
    /\ bsCalls[p].method = "UpdateBook"
    /\ books' = [books EXCEPT ![bsCalls[p].id] = "put"]
    /\ bsCalls' = [bsCalls EXCEPT ![p].pc = "unlock"]
    /\ UNCHANGED <<nextID, mu>>

\* DeleteBook: delete(bs.books, id)
DeleteBookWrite(p) ==
    /\ bsCalls[p].pc = "write"
    /\ bsCalls[p].method = "DeleteBook"
    /\ books' = [i \in DOMAIN books \ {bsCalls[p].id} |-> books[i]]
    /\ bsCalls' = [bsCalls EXCEPT ![p].pc = "unlock"]
    /\ UNCHANGED <<nextID, mu>>

\* the deferred bs.RUnlock() or bs.Unlock(); the method returns
BSUnlock(p) ==
    /\ bsCalls[p].pc = "unlock"
    /\ mu' = IF LockKind(bsCalls[p].method) = "read"
             THEN [mu EXCEPT !.readers = @ \ {p}]
             ELSE [mu EXCEPT !.writer = 0]
    /\ bsCalls' = [bsCalls EXCEPT ![p] = IdleCall]
    /\ UNCHANGED <<books, nextID>>

\* the store NewBookStore returns
StoreIdle ==
    /\ books = [i \in 1..SampleBooks |-> "sample"]
    /\ nextID = SampleBooks + 1
    /\ mu = [writer |-> 0, readers |-> {}]
    /\ bsCalls = [p \in Clients |-> IdleCall]

(***************************************************************************)
(* WorkerPool.  A channel is its buffer and whether it is closed.  main    *)
(* starts the workers, sends the jobs, closes jobs, starts the goroutine   *)
(* that waits for the workers and closes results, and ranges over results. *)
(***************************************************************************)
\* const numJobs (10 in the program), bounded here to keep the search small;
\* both channels have this capacity, as in the program
numJobs == 5
\* const numWorkers
numWorkers == 3

Jobs == 1..numJobs
Workers == 1..numWorkers
NewChan == [buf |-> <<>>, closed |-> FALSE]

\* for w := 1; w <= numWorkers; w++ { wg.Add(1); go func(id int) {...}(w) }
MainStartWorker ==
    /\ ~panicked
    /\ wpMain.pc = "start"
    /\ IF wpMain.w <= numWorkers
       THEN /\ wg' = wg + 1
            /\ workers' = [workers EXCEPT ![wpMain.w] = [pc |-> "recv", job |-> 0]]
            /\ wpMain' = [wpMain EXCEPT !.w = @ + 1]
       ELSE /\ wpMain' = [wpMain EXCEPT !.pc = "send"]
            /\ UNCHANGED <<wg, workers>>
    /\ UNCHANGED <<jobs, results, closer, collected, received, closes, panicked>>

\* for j := 1; j <= numJobs; j++ { jobs <- j }; the send waits for room
MainSendJob ==
    /\ ~panicked
    /\ wpMain.pc = "send"
    /\ IF wpMain.j <= numJobs
       THEN /\ Len(jobs.buf) < numJobs
            /\ jobs' = [jobs EXCEPT !.buf = Append(@, wpMain.j)]
            /\ wpMain' = [wpMain EXCEPT !.j = @ + 1]
       ELSE /\ wpMain' = [wpMain EXCEPT !.pc = "close"]
            /\ UNCHANGED jobs
    /\ UNCHANGED <<results, wg, workers, closer, collected, received, closes, panicked>>

\* close(jobs)
MainCloseJobs ==
    /\ ~panicked
    /\ wpMain.pc = "close"
    /\ jobs' = [jobs EXCEPT !.closed = TRUE]
    /\ wpMain' = [wpMain EXCEPT !.pc = "go"]
    /\ UNCHANGED <<results, wg, workers, closer, collected, received, closes, panicked>>

\* go func() { wg.Wait(); close(results) }()
MainStartCloser ==
    /\ ~panicked
    /\ wpMain.pc = "go"
    /\ closer' = "wait"
    /\ wpMain' = [wpMain EXCEPT !.pc = "collect"]
    /\ UNCHANGED <<jobs, results, wg, workers, collected, received, closes, panicked>>

\* for result := range results { Printf }: reads a value, or ends when
\* results is closed and empty
MainCollect ==
    /\ ~panicked
    /\ wpMain.pc = "collect"
    /\ IF results.buf # <<>>
       THEN LET v == Head(results.buf)
            IN /\ results' = [results EXCEPT !.buf = Tail(@)]
               /\ collected' =
                    [x \in DOMAIN collected \cup {v} |->
                        IF x \in DOMAIN collected THEN collected[x] + (IF x = v THEN 1 ELSE 0)
                        ELSE 1]
               /\ UNCHANGED wpMain
       ELSE /\ results.closed
            /\ wpMain' = [wpMain EXCEPT !.pc = "done"]
            /\ UNCHANGED <<results, collected>>
    /\ UNCHANGED <<jobs, wg, workers, closer, received, closes, panicked>>

\* for job := range jobs: receives a job, or ends when jobs is closed and empty
WorkerReceive(w) ==
    /\ ~panicked
    /\ workers[w].pc = "recv"
    /\ IF jobs.buf # <<>>
       THEN /\ workers' = [workers EXCEPT ![w] = [pc |-> "send", job |-> Head(jobs.buf)]]
            /\ jobs' = [jobs EXCEPT !.buf = Tail(@)]
            /\ received' = [received EXCEPT ![Head(jobs.buf)] = @ + 1]
       ELSE /\ jobs.closed
            /\ workers' = [workers EXCEPT ![w] = [pc |-> "return", job |-> 0]]
            /\ UNCHANGED <<jobs, received>>
    /\ UNCHANGED <<wpMain, results, wg, closer, collected, closes, panicked>>

\* WorkerSend sending the job as it came
WorkerSendUnprocessed(w) ==
    /\ ~panicked
    /\ workers[w].pc = "send"
    /\ IF results.closed
       THEN panicked' = TRUE /\ UNCHANGED <<results, workers>>
       ELSE /\ Len(results.buf) < numJobs
            /\ results' = [results EXCEPT !.buf = Append(@, workers[w].job)]
            /\ workers' = [workers EXCEPT ![w] = [pc |-> "recv", job |-> 0]]
            /\ UNCHANGED panicked
    /\ UNCHANGED <<wpMain, jobs, wg, closer, collected, received, closes>>

\* results <- job * 2: waits for room; panics when results is closed
WorkerSend(w) ==
    /\ ~panicked
    /\ workers[w].pc = "send"
    /\ IF results.closed
       THEN panicked' = TRUE /\ UNCHANGED <<results, workers>>
       ELSE /\ Len(results.buf) < numJobs
            /\ results' = [results EXCEPT !.buf = Append(@, workers[w].job * 2)]
            /\ workers' = [workers EXCEPT ![w] = [pc |-> "recv", job |-> 0]]
            /\ UNCHANGED panicked
    /\ UNCHANGED <<wpMain, jobs, wg, closer, collected, received, closes>>

\* worker returns; the deferred wg.Done() runs
WorkerDone(w) ==
    /\ ~panicked
    /\ workers[w].pc = "return"
    /\ wg' = wg - 1
    /\ workers' = [workers EXCEPT ![w].pc = "exited"]
    /\ UNCHANGED <<wpMain, jobs, results, closer, collected, received, closes, panicked>>

\* CloserWait not waiting for the counter to reach zero
CloserNoWait ==
    /\ ~panicked
    /\ closer = "wait"
    /\ closer' = "close"
    /\ UNCHANGED <<wpMain, jobs, results, wg, workers, collected, received, closes, panicked>>

\* wg.Wait() returns when the counter is zero
CloserWait ==
    /\ ~panicked
    /\ closer = "wait"
    /\ wg = 0
    /\ closer' = "close"
    /\ UNCHANGED <<wpMain, jobs, results, wg, workers, collected, received, closes, panicked>>

\* close(results): panics when results is closed already
CloserClose ==
    /\ ~panicked
    /\ closer = "close"
    /\ IF results.closed
       THEN panicked' = TRUE /\ UNCHANGED <<results, closes>>
       ELSE /\ results' = [results EXCEPT !.closed = TRUE]
            /\ closes' = closes + 1
            /\ UNCHANGED panicked
    /\ closer' = "done"
    /\ UNCHANGED <<wpMain, jobs, wg, workers, collected, received>>

\* WorkerPool has made the channels and the WaitGroup
PoolIdle ==
    /\ wpMain = [pc |-> "start", w |-> 1, j |-> 1]
    /\ jobs = NewChan
    /\ results = NewChan
    /\ wg = 0
    /\ workers = [w \in Workers |-> [pc |-> "unstarted", job |-> 0]]
    /\ closer = "unstarted"
    /\ collected = [x \in {} |-> 0]
    /\ received = [j \in Jobs |-> 0]
    /\ closes = 0
    /\ panicked = FALSE

(***************************************************************************)
(* UserHandler (the HTTP testing demo).  The users map is a function whose *)
(* domain is the set of its keys.  A request carries its method, the id    *)
(* query parameter (GetUser) and its body (CreateUser): the user the JSON  *)
(* text decodes to, or a text that does not decode.  A response is its     *)
(* status, its Content-Type and its body: the Response that was marshalled *)
(* (Data is <<>> when omitted) or the text of http.Error.                  *)
(***************************************************************************)
\* largest User.ID of a posted user
MaxUserID == 2

StatusCreated == 201
StatusBadRequest == 400
StatusNotFound == 404
StatusMethodNotAllowed == 405

\* the user NewUserHandler starts with, under the key "1"
John == [ID |-> 1, FirstName |-> "John", LastName |-> "Doe",
         Email |-> "john@example.com", Age |-> 30]
ZeroUser == [ID |-> 0, FirstName |-> "", LastName |-> "", Email |-> "", Age |-> 0]

PostedUsers ==
    [ID : 1..MaxUserID, FirstName : {"", "Jane"}, LastName : {"", "Doe"},
     Email : {"", "jane@example.com"}, Age : {-1, 25}]
\* request bodies: the JSON of a user, or malformed JSON
Bodies == [ok : {TRUE}, user : PostedUsers] \cup {[ok |-> FALSE, user |-> ZeroUser]}
\* values of the id query parameter; "" is a request without it
QueryIDs == {"", "1", "2", "999"}
UserMethods == {"GET", "POST"}

DecimalDigits == <<"0", "1", "2", "3", "4", "5", "6", "7", "8", "9">>

\* fmt.Sprintf("%d", n)
RECURSIVE Sprintf_d(_)
Sprintf_d(n) ==
    IF n < 0 THEN "-" \o Sprintf_d(0 - n)
    ELSE IF n < 10 THEN DecimalDigits[n + 1]
    ELSE Sprintf_d(n \div 10) \o DecimalDigits[(n % 10) + 1]

\* ValidateUser: the error message, "" for nil
ValidateUser(u) ==
    IF u.FirstName = "" THEN "first name cannot be empty"
    ELSE IF u.LastName = "" THEN "last name cannot be empty"
    ELSE IF u.Email = "" THEN "email cannot be empty"
    ELSE IF u.Age < 0 THEN "age cannot be negative"
    ELSE ""

\* Response{...}: the fields not given are empty and omitted
JSONResponse(status, message, data, error) ==
    [Status |-> status, Message |-> message, Data |-> data, Error |-> error]

\* respondWithJSON(w, code, payload)
RespondWithJSON(code, payload) ==
    [code |-> code, contentType |-> "application/json", body |-> payload]

\* http.Error(w, text, code)
TextError(code, text) ==
    [code |-> code, contentType |-> "text/plain; charset=utf-8", body |-> [Text |-> text]]

\* GetUserResponse looking the user up before testing for an empty id
GetUserResponseLookupFirst(method, id) ==
    IF method # "GET" THEN TextError(StatusMethodNotAllowed, "Method not allowed")
    ELSE IF id \notin DOMAIN users
    THEN RespondWithJSON(StatusNotFound, JSONResponse("error", "", <<>>, "user not found"))
    ELSE RespondWithJSON(StatusOK, JSONResponse("success", "", <<users[id]>>, ""))

\* what GetUser writes
GetUserResponse(method, id) ==
    IF method # "GET" THEN TextError(StatusMethodNotAllowed, "Method not allowed")
    ELSE IF id = ""
    THEN RespondWithJSON(StatusBadRequest, JSONResponse("error", "", <<>>, "user ID is required"))
    ELSE IF id \notin DOMAIN users
    THEN RespondWithJSON(StatusNotFound, JSONResponse("error", "", <<>>, "user not found"))
    ELSE RespondWithJSON(StatusOK, JSONResponse("success", "", <<users[id]>>, ""))

\* h.GetUser(w, r)
GetUser(method, id) ==
    /\ uhRequest' = [handler |-> "GetUser", Method |-> method, id |-> id,
                     body |-> [ok |-> FALSE, user |-> ZeroUser]]
    /\ uhResponse' = GetUserResponse(method, id)
    /\ UNCHANGED users

\* CreateUser storing the decoded user before it is validated
CreateUserStoresFirst(method, body) ==
    /\ uhRequest' = [handler |-> "CreateUser", Method |-> method, id |-> "", body |-> body]
    /\ IF method # "POST"
       THEN /\ uhResponse' = TextError(StatusMethodNotAllowed, "Method not allowed")
            /\ UNCHANGED users
       ELSE IF ~body.ok
       THEN /\ uhResponse' = RespondWithJSON(StatusBadRequest,
                    JSONResponse("error", "", <<>>, "invalid request payload"))
            /\ UNCHANGED users
       ELSE /\ users' = [k \in DOMAIN users \cup {Sprintf_d(body.user.ID)} |->
                            IF k = Sprintf_d(body.user.ID) THEN body.user ELSE users[k]]
            /\ uhResponse' =
                IF ValidateUser(body.user) # ""
                THEN RespondWithJSON(StatusBadRequest,
                        JSONResponse("error", "", <<>>, ValidateUser(body.user)))
                ELSE RespondWithJSON(StatusCreated,
                        JSONResponse("success", "User created successfully", <<body.user>>, ""))

\* h.CreateUser(w, r)
CreateUser(method, body) ==
    /\ uhRequest' = [handler |-> "CreateUser", Method |-> method, id |-> "", body |-> body]
    /\ IF method # "POST"
       THEN /\ uhResponse' = TextError(StatusMethodNotAllowed, "Method not allowed")
            /\ UNCHANGED users
       ELSE IF ~body.ok
       THEN /\ uhResponse' = RespondWithJSON(StatusBadRequest,
                    JSONResponse("error", "", <<>>, "invalid request payload"))
            /\ UNCHANGED users
       ELSE IF ValidateUser(body.user) # ""
       THEN /\ uhResponse' = RespondWithJSON(StatusBadRequest,
                    JSONResponse("error", "", <<>>, ValidateUser(body.user)))
            /\ UNCHANGED users
       ELSE /\ users' = [k \in DOMAIN users \cup {Sprintf_d(body.user.ID)} |->
                            IF k = Sprintf_d(body.user.ID) THEN body.user ELSE users[k]]
            /\ uhResponse' = RespondWithJSON(StatusCreated,
                    JSONResponse("success", "User created successfully", <<body.user>>, ""))

\* the handler NewUserHandler returns, no request handled yet
UserIdle ==
    /\ users = [k \in {"1"} |-> John]
    /\ uhRequest = [handler |-> "none", Method |-> "GET", id |-> "",
                    body |-> [ok |-> FALSE, user |-> ZeroUser]]
    /\ uhResponse = [code |-> 0, contentType |-> "", body |-> [Text |-> ""]]

(***************************************************************************)
(* The context demo (concurrency/context_package).  main runs the examples *)
(* one after the other; the goroutines an example starts keep running      *)
(* after the example returns.  Time is in milliseconds.  A time.Sleep(d)   *)
(* ends d after it began, a context with a deadline is done from its       *)
(* deadline on, and time passes only when no goroutine can take a step.    *)
(***************************************************************************)
TimeoutDuration == 1000
WorkDuration == 2000
CancelWorkerSleep == 500
CancelMainSleep == 1500
CancelGraceSleep == 1000
DeadlineDuration == 2000
DeadlineWorkerSleep == 500
ChildTimeout == 5000
PropagateWorkerSleep == 500
PropagateMainSleep == 1500

\* no deadline (context.WithCancel), or a context not made yet
NoDeadline == -1

ContextNames == {"timeoutCtx", "cancelCtx", "deadlineCtx", "parentCtx", "childCtx"}

\* the goroutine started by DoSomethingWithTimeout, and the polling workers of
\* ContextWithCancellation, ContextWithDeadline and PropagatingCancellation
CtxGoroutines ==
    {"timeoutWorker", "cancelWorker", "deadlineWorker", "parentWorker", "childWorker"}

PollingWorkers == CtxGoroutines \ {"timeoutWorker"}

\* the context a polling worker selects on
WatchedCtx(g) ==
    CASE g = "cancelWorker" -> "cancelCtx"
      [] g = "deadlineWorker" -> "deadlineCtx"
      [] g = "parentWorker" -> "parentCtx"
      [] g = "childWorker" -> "childCtx"

PollSleep(g) ==
    CASE g = "cancelWorker" -> CancelWorkerSleep
      [] g = "deadlineWorker" -> DeadlineWorkerSleep
      [] g = "parentWorker" -> PropagateWorkerSleep
      [] g = "childWorker" -> PropagateWorkerSleep

CancelledLine(g) ==
    CASE g = "cancelWorker" -> "Worker: Received cancellation signal"
      [] g = "deadlineWorker" -> "Worker: Context done"
      [] g = "parentWorker" -> "Parent context goroutine: cancelled"
      [] g = "childWorker" -> "Child context goroutine: cancelled"

WorkingLine(g) ==
    CASE g = "cancelWorker" -> "Worker: Doing work..."
      [] g = "deadlineWorker" -> "Worker: Time left until deadline"
      [] g = "parentWorker" -> "Parent context goroutine: working"
      [] g = "childWorker" -> "Child context goroutine: working"

\* the goroutines that defer wg.Done()
InWaitGroup(g) == g \in {"parentWorker", "childWorker"}

\* childCtx is derived from parentCtx; every other context from Background
ParentOf(c) == IF c = "childCtx" THEN {"parentCtx"} ELSE {}

\* a context that is done only by its own cancel or deadline
DoneNoPropagation(c) ==
    \/ c \in ctxCancelled
    \/ ctxDeadline[c] # NoDeadline /\ ctxClock >= ctxDeadline[c]

\* ctx.Done() is closed: cancel was called, the deadline has passed, or the
\* context it was derived from is done
Done(c) ==
    \/ c \in ctxCancelled
    \/ ctxDeadline[c] # NoDeadline /\ ctxClock >= ctxDeadline[c]
    \/ \E p \in ParentOf(c) :
            \/ p \in ctxCancelled
            \/ ctxDeadline[p] # NoDeadline /\ ctxClock >= ctxDeadline[p]

Unstarted == [pc |-> "unstarted", wake |-> 0]
Running == [pc |-> "run", wake |-> 0]
Returned == [pc |-> "returned", wake |-> 0]
Sleeping(d) == [pc |-> "sleeping", wake |-> ctxClock + d]

ProgramRunning == ctxMainPc # "exited"

\* BasicContextExample: makes contexts, prints them and returns
BasicContextExample ==
    /\ ctxMainPc = "basic"
    /\ ctxMainPc' = "timeout_start"
    /\ UNCHANGED <<ctxClock, ctxMainWake, ctxGo, ctxCancelled, ctxDeadline,
                   ctxDoneClosed, ctxWg, ctxPrinted>>

\* DoSomethingWithTimeout up to its select
TimeoutStart ==
    /\ ctxMainPc = "timeout_start"
    /\ ctxDeadline' = [ctxDeadline EXCEPT !["timeoutCtx"] = ctxClock + TimeoutDuration]
    /\ ctxGo' = [ctxGo EXCEPT !["timeoutWorker"] = Running]
    /\ ctxMainPc' = "timeout_select"
    /\ UNCHANGED <<ctxClock, ctxMainWake, ctxCancelled, ctxDoneClosed, ctxWg, ctxPrinted>>

\* the select of DoSomethingWithTimeout (one of the ready cases), and the
\* deferred cancel()
TimeoutSelect ==
    /\ ctxMainPc = "timeout_select"
    /\ \/ /\ ctxDoneClosed
          /\ ctxPrinted' = ctxPrinted \cup {"Work finished successfully"}
       \/ /\ Done("timeoutCtx")
          /\ ctxPrinted' = ctxPrinted \cup {"Work cancelled: context deadline exceeded"}
    /\ ctxCancelled' = ctxCancelled \cup {"timeoutCtx"}
    /\ ctxMainPc' = "cancel_start"
    /\ UNCHANGED <<ctxClock, ctxMainWake, ctxGo, ctxDeadline, ctxDoneClosed, ctxWg>>

\* the goroutine of DoSomethingWithTimeout: "Starting work..." and the Sleep
TimeoutWorkerStart ==
    /\ ProgramRunning
    /\ ctxGo["timeoutWorker"].pc = "run"
    /\ ctxPrinted' = ctxPrinted \cup {"Starting work..."}
    /\ ctxGo' = [ctxGo EXCEPT !["timeoutWorker"] = Sleeping(WorkDuration)]
    /\ UNCHANGED <<ctxClock, ctxMainPc, ctxMainWake, ctxCancelled, ctxDeadline,
                   ctxDoneClosed, ctxWg>>

\* the goroutine of DoSomethingWithTimeout after its Sleep
TimeoutWorkerFinish ==
    /\ ProgramRunning
    /\ ctxGo["timeoutWorker"].pc = "sleeping"
    /\ ctxClock >= ctxGo["timeoutWorker"].wake
    /\ ctxPrinted' = ctxPrinted \cup {"Work completed!"}
    /\ ctxDoneClosed' = TRUE
    /\ ctxGo' = [ctxGo EXCEPT !["timeoutWorker"] = Returned]
    /\ UNCHANGED <<ctxClock, ctxMainPc, ctxMainWake, ctxCancelled, ctxDeadline, ctxWg>>

\* ContextWithCancellation up to its first Sleep
CancelStart ==
    /\ ctxMainPc = "cancel_start"
    /\ ctxGo' = [ctxGo EXCEPT !["cancelWorker"] = Running]
    /\ ctxMainPc' = "cancel_sleep"
    /\ ctxMainWake' = ctxClock + CancelMainSleep
    /\ UNCHANGED <<ctxClock, ctxCancelled, ctxDeadline, ctxDoneClosed, ctxWg, ctxPrinted>>

\* ContextWithCancellation: cancel() and the second Sleep
CancelCancel ==
    /\ ctxMainPc = "cancel_sleep"
    /\ ctxClock >= ctxMainWake
    /\ ctxPrinted' = ctxPrinted \cup {"Main: Cancelling the context"}
    /\ ctxCancelled' = ctxCancelled \cup {"cancelCtx"}
    /\ ctxMainPc' = "cancel_grace"
    /\ ctxMainWake' = ctxClock + CancelGraceSleep
    /\ UNCHANGED <<ctxClock, ctxGo, ctxDeadline, ctxDoneClosed, ctxWg>>

CancelReturn ==
    /\ ctxMainPc = "cancel_grace"
    /\ ctxClock >= ctxMainWake
    /\ ctxMainPc' = "values"
    /\ UNCHANGED <<ctxClock, ctxMainWake, ctxGo, ctxCancelled, ctxDeadline,
                   ctxDoneClosed, ctxWg, ctxPrinted>>

\* ContextWithValues: reads the values back and prints them
ContextWithValues ==
    /\ ctxMainPc = "values"
    /\ ctxPrinted' = ctxPrinted \cup {"Processing request for user 42 with token secret-token"}
    /\ ctxMainPc' = "deadline_start"
    /\ UNCHANGED <<ctxClock, ctxMainWake, ctxGo, ctxCancelled, ctxDeadline,
                   ctxDoneClosed, ctxWg>>

\* ContextWithDeadline up to <-ctx.Done()
DeadlineStart ==
    /\ ctxMainPc = "deadline_start"
    /\ ctxDeadline' = [ctxDeadline EXCEPT !["deadlineCtx"] = ctxClock + DeadlineDuration]
    /\ ctxGo' = [ctxGo EXCEPT !["deadlineWorker"] = Running]
    /\ ctxMainPc' = "deadline_wait"
    /\ UNCHANGED <<ctxClock, ctxMainWake, ctxCancelled, ctxDoneClosed, ctxWg, ctxPrinted>>

\* ContextWithDeadline from <-ctx.Done() on, and the deferred cancel()
DeadlineWait ==
    /\ ctxMainPc = "deadline_wait"
    /\ Done("deadlineCtx")
    /\ ctxPrinted' = ctxPrinted \cup {"Main: Context done"}
    /\ ctxCancelled' = ctxCancelled \cup {"deadlineCtx"}
    /\ ctxMainPc' = "propagate_start"
    /\ UNCHANGED <<ctxClock, ctxMainWake, ctxGo, ctxDeadline, ctxDoneClosed, ctxWg>>

\* PropagatingCancellation up to its Sleep
PropagateStart ==
    /\ ctxMainPc = "propagate_start"
    /\ ctxDeadline' = [ctxDeadline EXCEPT !["childCtx"] = ctxClock + ChildTimeout]
    /\ ctxWg' = ctxWg + 2
    /\ ctxGo' = [ctxGo EXCEPT !["parentWorker"] = Running, !["childWorker"] = Running]
    /\ ctxMainPc' = "propagate_sleep"
    /\ ctxMainWake' = ctxClock + PropagateMainSleep
    /\ UNCHANGED <<ctxClock, ctxCancelled, ctxDoneClosed, ctxPrinted>>

\* PropagatingCancellation: parentCancel()
ParentCancel ==
    /\ ctxMainPc = "propagate_sleep"
    /\ ctxClock >= ctxMainWake
    /\ ctxPrinted' = ctxPrinted \cup {"Main: Cancelling parent context"}
    /\ ctxCancelled' = ctxCancelled \cup {"parentCtx"}
    /\ ctxMainPc' = "propagate_wait"
    /\ UNCHANGED <<ctxClock, ctxMainWake, ctxGo, ctxDeadline, ctxDoneClosed, ctxWg>>

\* PropagatingCancellation from wg.Wait() on, and the deferred childCancel()
\* and parentCancel()
PropagateWait ==
    /\ ctxMainPc = "propagate_wait"
    /\ ctxWg = 0
    /\ ctxPrinted' = ctxPrinted \cup {"Both goroutines exited"}
    /\ ctxCancelled' = ctxCancelled \cup {"childCtx", "parentCtx"}
    /\ ctxMainPc' = "rest"
    /\ UNCHANGED <<ctxClock, ctxMainWake, ctxGo, ctxDeadline, ctxDoneClosed, ctxWg>>

\* the examples main runs after PropagatingCancellation, and main's return:
\* they touch none of the contexts and goroutines above
MainRest ==
    /\ ctxMainPc = "rest"
    /\ ctxMainPc' = "exited"
    /\ UNCHANGED <<ctxClock, ctxMainWake, ctxGo, ctxCancelled, ctxDeadline,
                   ctxDoneClosed, ctxWg, ctxPrinted>>

\* one round of a polling worker: select { case <-ctx.Done(): ...; return
\* default: ...; time.Sleep(...) }
WorkerSelect(g) ==
    /\ ProgramRunning
    /\ ctxGo[g].pc = "run"
    /\ IF Done(WatchedCtx(g))
       THEN /\ ctxPrinted' = ctxPrinted \cup {CancelledLine(g)}
            /\ ctxGo' = [ctxGo EXCEPT ![g] = Returned]
            /\ ctxWg' = IF InWaitGroup(g) THEN ctxWg - 1 ELSE ctxWg
       ELSE /\ ctxPrinted' = ctxPrinted \cup {WorkingLine(g)}
            /\ ctxGo' = [ctxGo EXCEPT ![g] = Sleeping(PollSleep(g))]
            /\ ctxWg' = ctxWg
    /\ UNCHANGED <<ctxClock, ctxMainPc, ctxMainWake, ctxCancelled, ctxDeadline, ctxDoneClosed>>

\* the worker's Sleep ends
WorkerWake(g) ==
    /\ ProgramRunning
    /\ ctxGo[g].pc = "sleeping"
    /\ ctxClock >= ctxGo[g].wake
    /\ ctxGo' = [ctxGo EXCEPT ![g] = Running]
    /\ UNCHANGED <<ctxClock, ctxMainPc, ctxMainWake, ctxCancelled, ctxDeadline,
                   ctxDoneClosed, ctxWg, ctxPrinted>>

\* main can take a step now
MainRunnable ==
    CASE ctxMainPc = "timeout_select" -> ctxDoneClosed \/ Done("timeoutCtx")
      [] ctxMainPc \in {"cancel_sleep", "cancel_grace", "propagate_sleep"} ->
            ctxClock >= ctxMainWake
      [] ctxMainPc = "deadline_wait" -> Done("deadlineCtx")
      [] ctxMainPc = "propagate_wait" -> ctxWg = 0
      [] ctxMainPc = "exited" -> FALSE
      [] OTHER -> TRUE

GoRunnable(g) ==
    \/ ctxGo[g].pc = "run"
    \/ ctxGo[g].pc = "sleeping" /\ ctxClock >= ctxGo[g].wake

\* the times at which a Sleep ends or a deadline passes
PendingTimes ==
    {ctxGo[g].wake : g \in {h \in CtxGoroutines : ctxGo[h].pc = "sleeping"}}
        \cup {ctxDeadline[c] : c \in {d \in ContextNames :
                                        ctxDeadline[d] # NoDeadline /\ ~Done(d)}}
        \cup (IF ctxMainPc \in {"cancel_sleep", "cancel_grace", "propagate_sleep"}
              THEN {ctxMainWake} ELSE {})

\* time passes to the next Sleep's end or deadline
Advance ==
    /\ ProgramRunning
    /\ ~MainRunnable
    /\ \A g \in CtxGoroutines : ~GoRunnable(g)
    /\ \E t \in PendingTimes :
            /\ t > ctxClock
            /\ \A u \in PendingTimes : u > ctxClock => t <= u
            /\ ctxClock' = t
    /\ UNCHANGED <<ctxMainPc, ctxMainWake, ctxGo, ctxCancelled, ctxDeadline,
                   ctxDoneClosed, ctxWg, ctxPrinted>>

ContextIdle ==
    /\ ctxClock = 0
    /\ ctxMainPc = "basic"
    /\ ctxMainWake = 0
    /\ ctxGo = [g \in CtxGoroutines |-> Unstarted]
    /\ ctxCancelled = {}
    /\ ctxDeadline = [c \in ContextNames |-> NoDeadline]
    /\ ctxDoneClosed = FALSE
    /\ ctxWg = 0
    /\ ctxPrinted = {}

(***************************************************************************)
(* The placeholder of concurency-practice: main makes two unbuffered       *)
(* channels and selects on a receive from each.  main is the program's     *)
(* only goroutine.                                                         *)
(***************************************************************************)
SelChannels == {"ch1", "ch2"}

\* a receive from an unbuffered channel can proceed when a sender is parked
\* on the channel
RecvReady(ch) == selSendq[ch] # <<>>

\* ch1 := make(chan string); ch2 := make(chan string)
SelMakeChannels ==
    /\ selPc = "start"
    /\ selSendq' = [ch \in SelChannels |-> <<>>]
    /\ selPc' = "select"
    /\ UNCHANGED selPrinted

\* a select whose receive cases proceed without a sender, with the zero value
SelectAsIfClosed ==
    /\ selPc = "select"
    /\ \E ch \in SelChannels :
            selPrinted' = selPrinted \cup {ch \o ":"}
    /\ selPc' = "returned"
    /\ UNCHANGED selSendq

\* the select: one of the ready cases receives and prints; with no case ready
\* and no default, the goroutine parks
Select ==
    /\ selPc = "select"
    /\ IF \E ch \in SelChannels : RecvReady(ch)
       THEN /\ \E ch \in {c \in SelChannels : RecvReady(c)} :
                    /\ selPrinted' = selPrinted \cup {ch \o ":"}
                    /\ selSendq' = [selSendq EXCEPT ![ch] = Tail(@)]
            /\ selPc' = "returned"
       ELSE /\ selPc' = "parked"
            /\ UNCHANGED <<selSendq, selPrinted>>

SelectIdle ==
    /\ selPc = "start"
    /\ selSendq = [ch \in SelChannels |-> <<>>]
    /\ selPrinted = {}

(***************************************************************************)
(* quickSort (part_005).  arr is a function on 0 .. len(arr)-1, shared by  *)
(* every call; qsStack is the stack of the calls in progress, the running  *)
(* call last.  An action is one statement or one evaluation of a loop      *)
(* condition.  qsFault records an index used outside the call's            *)
(* [low, high]; an index outside arr is Go's run-time panic.               *)
(***************************************************************************)
\* longest slice sorted, and the largest element
MaxArrLen == 5
MaxElem == 3

Slices == UNION {[0 .. n - 1 -> 1 .. MaxElem] : n \in 0 .. MaxArrLen}

len(a) == Cardinality(DOMAIN a)

NewCall(low, high) ==
    [low |-> low, high |-> high, s |-> 0, e |-> 0, piviot |-> 0, pc |-> "entry"]

QsTop == qsStack[Len(qsStack)]

QsSetTop(f) == [qsStack EXCEPT ![Len(qsStack)] = f]

QsPop == SubSeq(qsStack, 1, Len(qsStack) - 1)

InCall(f, i) == f.low <= i /\ i <= f.high

\* the index expression arr[i] of call f: panics outside arr
QsPanics(i) == i \notin DOMAIN qsArr

QsPanic ==
    /\ qsState' = "panicked"
    /\ qsFault' = TRUE
    /\ UNCHANGED <<qsArr, qsStack, qsInput>>

\* main's call quickSort(arr, 0, len(arr)-1)
CallQuickSort ==
    /\ qsState = "idle"
    /\ qsState' = "running"
    /\ qsStack' = <<NewCall(0, len(qsArr) - 1)>>
    /\ UNCHANGED <<qsArr, qsInput, qsFault>>

\* if low >= high { return }; s := low; e := high; mid := (low + high) / 2;
\* piviot := arr[mid]
QsEntry ==
    /\ qsState = "running" /\ QsTop.pc = "entry"
    /\ LET f == QsTop
           mid == (f.low + f.high) \div 2
       IN IF f.low >= f.high
          THEN /\ qsStack' = QsPop
               /\ qsState' = IF Len(qsStack) = 1 THEN "returned" ELSE "running"
               /\ UNCHANGED <<qsArr, qsInput, qsFault>>
          ELSE IF QsPanics(mid)
          THEN QsPanic
          ELSE /\ qsStack' = QsSetTop([f EXCEPT !.s = f.low, !.e = f.high,
                                                !.piviot = qsArr[mid], !.pc = "outer"])
               /\ qsFault' = (qsFault \/ ~InCall(f, mid))
               /\ UNCHANGED <<qsArr, qsInput, qsState>>

\* for s <= e
QsOuter ==
    /\ qsState = "running" /\ QsTop.pc = "outer"
    /\ LET f == QsTop
       IN qsStack' = QsSetTop([f EXCEPT !.pc = IF f.s <= f.e THEN "scan_s" ELSE "sort_low"])
    /\ UNCHANGED <<qsArr, qsInput, qsState, qsFault>>

\* a scan that also steps over elements equal to the pivot
QsScanSNonStrict ==
    /\ qsState = "running" /\ QsTop.pc = "scan_s"
    /\ LET f == QsTop
       IN IF QsPanics(f.s)
          THEN QsPanic
          ELSE /\ qsStack' = QsSetTop(IF qsArr[f.s] <= f.piviot
                                      THEN [f EXCEPT !.s = f.s + 1]
                                      ELSE [f EXCEPT !.pc = "scan_e"])
               /\ qsFault' = (qsFault \/ ~InCall(f, f.s))
               /\ UNCHANGED <<qsArr, qsInput, qsState>>

\* for arr[s] < piviot { s++ }
QsScanS ==
    /\ qsState = "running" /\ QsTop.pc = "scan_s"
    /\ LET f == QsTop
       IN IF QsPanics(f.s)
          THEN QsPanic
          ELSE /\ qsStack' = QsSetTop(IF qsArr[f.s] < f.piviot
                                      THEN [f EXCEPT !.s = f.s + 1]
                                      ELSE [f EXCEPT !.pc = "scan_e"])
               /\ qsFault' = (qsFault \/ ~InCall(f, f.s))
               /\ UNCHANGED <<qsArr, qsInput, qsState>>

\* for arr[e] > piviot { e-- }
QsScanE ==
    /\ qsState = "running" /\ QsTop.pc = "scan_e"
    /\ LET f == QsTop
       IN IF QsPanics(f.e)
          THEN QsPanic
          ELSE /\ qsStack' = QsSetTop(IF qsArr[f.e] > f.piviot
                                      THEN [f EXCEPT !.e = f.e - 1]
                                      ELSE [f EXCEPT !.pc = "swap"])
               /\ qsFault' = (qsFault \/ ~InCall(f, f.e))
               /\ UNCHANGED <<qsArr, qsInput, qsState>>

\* if s <= e { arr[e], arr[s] = arr[s], arr[e]; s++; e-- }
QsSwap ==
    /\ qsState = "running" /\ QsTop.pc = "swap"
    /\ LET f == QsTop
       IN IF f.s > f.e
          THEN /\ qsStack' = QsSetTop([f EXCEPT !.pc = "outer"])
               /\ UNCHANGED <<qsArr, qsInput, qsState, qsFault>>
          ELSE IF QsPanics(f.s) \/ QsPanics(f.e)
          THEN QsPanic
          ELSE /\ qsArr' = [qsArr EXCEPT ![f.e] = qsArr[f.s], ![f.s] = qsArr[f.e]]
               /\ qsStack' = QsSetTop([f EXCEPT !.s = f.s + 1, !.e = f.e - 1,
                                                !.pc = "outer"])
               /\ qsFault' = (qsFault \/ ~InCall(f, f.s) \/ ~InCall(f, f.e))
               /\ UNCHANGED <<qsInput, qsState>>

\* quickSort(arr, low, e)
QsSortLow ==
    /\ qsState = "running" /\ QsTop.pc = "sort_low"
    /\ LET f == QsTop
       IN qsStack' = Append(QsSetTop([f EXCEPT !.pc = "sort_high"]), NewCall(f.low, f.e))
    /\ UNCHANGED <<qsArr, qsInput, qsState, qsFault>>

\* quickSort(arr, s, high)
QsSortHigh ==
    /\ qsState = "running" /\ QsTop.pc = "sort_high"
    /\ LET f == QsTop
       IN qsStack' = Append(QsSetTop([f EXCEPT !.pc = "return"]), NewCall(f.s, f.high))
    /\ UNCHANGED <<qsArr, qsInput, qsState, qsFault>>

\* the end of the function
QsReturn ==
    /\ qsState = "running" /\ QsTop.pc = "return"
    /\ qsStack' = QsPop
    /\ qsState' = IF Len(qsStack) = 1 THEN "returned" ELSE "running"
    /\ UNCHANGED <<qsArr, qsInput, qsFault>>

QuickSortIdle ==
    /\ qsInput = <<>>
    /\ qsArr = <<>>
    /\ qsStack = <<>>
    /\ qsState = "idle"
    /\ qsFault = FALSE

(***************************************************************************)
(* The linked-list Queue and Stack (data-structures/link-list).  A heap is *)
(* the sequence of the Nodes allocated so far; a *Node is an index into    *)
(* it, and nil is 0.  quModel and stModel are the values a sequence would  *)
(* hold after the same calls; quLast and stLast are the last call and      *)
(* what it returned.                                                       *)
(***************************************************************************)
\* most addElement calls, and most push calls
MaxAdds == 4
MaxPushes == 4

nil == 0

NodeValues == {0, 1, 2}

\* &Node{val: val, next: next} appended to heap
NewNode(heap, val, next) == Append(heap, [val |-> val, next |-> next])

\* the nodes reached from n by next, at most fuel of them
RECURSIVE NodesFrom(_, _, _)
NodesFrom(heap, n, fuel) ==
    IF n = nil \/ fuel = 0 THEN <<>>
    ELSE <<n>> \o NodesFrom(heap, heap[n].next, fuel - 1)

ValuesFrom(heap, n) ==
    LET reached == NodesFrom(heap, n, Len(heap) + 1)
    IN [i \in 1 .. Len(reached) |-> heap[reached[i]].val]

NoCall == [op |-> "none", ret |-> 0]

addElement(val) ==
    /\ Len(quNodes) < MaxAdds
    /\ LET newNode == Len(quNodes) + 1
           heap == NewNode(quNodes, val, nil)
       IN IF quRear = nil
          THEN /\ quFront' = newNode
               /\ quRear' = newNode
               /\ quNodes' = heap
          ELSE /\ quNodes' = [heap EXCEPT ![quRear].next = newNode]
               /\ quRear' = newNode
               /\ quFront' = quFront
    /\ quModel' = Append(quModel, val)
    /\ quLast' = [op |-> "addElement", ret |-> 0]

\* a removeElement that leaves rear as it is
removeElementKeepsRear ==
    /\ IF quFront = nil
       THEN /\ quLast' = [op |-> "removeElement", ret |-> 0]
            /\ UNCHANGED <<quFront, quRear>>
       ELSE /\ quLast' = [op |-> "removeElement", ret |-> quNodes[quFront].val]
            /\ quFront' = quNodes[quFront].next
            /\ quRear' = quRear
    /\ quModel' = IF quModel = <<>> THEN <<>> ELSE Tail(quModel)
    /\ UNCHANGED quNodes

removeElement ==
    /\ IF quFront = nil
       THEN /\ quLast' = [op |-> "removeElement", ret |-> 0]
            /\ UNCHANGED <<quFront, quRear>>
       ELSE /\ quLast' = [op |-> "removeElement", ret |-> quNodes[quFront].val]
            /\ quFront' = quNodes[quFront].next
            /\ quRear' = IF quNodes[quFront].next = nil THEN nil ELSE quRear
    /\ quModel' = IF quModel = <<>> THEN <<>> ELSE Tail(quModel)
    /\ UNCHANGED quNodes

QueueIdle ==
    /\ quNodes = <<>>
    /\ quFront = nil
    /\ quRear = nil
    /\ quModel = <<>>
    /\ quLast = NoCall

push(x) ==
    /\ Len(stNodes) < MaxPushes
    /\ stNodes' = NewNode(stNodes, x, stTop)
    /\ stTop' = Len(stNodes) + 1
    /\ stModel' = <<x>> \o stModel
    /\ stLast' = [op |-> "push", ret |-> 0]

\* a pop that leaves top as it is
popKeepsTop ==
    /\ IF stTop = nil
       THEN /\ stLast' = [op |-> "pop", ret |-> 0]
            /\ stTop' = stTop
       ELSE /\ stLast' = [op |-> "pop", ret |-> stNodes[stTop].val]
            /\ stTop' = stTop
    /\ stModel' = IF stModel = <<>> THEN <<>> ELSE Tail(stModel)
    /\ UNCHANGED stNodes

pop ==
    /\ IF stTop = nil
       THEN /\ stLast' = [op |-> "pop", ret |-> 0]
            /\ stTop' = stTop
       ELSE /\ stLast' = [op |-> "pop", ret |-> stNodes[stTop].val]
            /\ stTop' = stNodes[stTop].next
    /\ stModel' = IF stModel = <<>> THEN <<>> ELSE Tail(stModel)
    /\ UNCHANGED stNodes

topNode ==
    /\ stLast' = [op |-> "topNode", ret |-> IF stTop = nil THEN 0 ELSE stNodes[stTop].val]
    /\ UNCHANGED <<stNodes, stTop, stModel>>

isEmpty ==
    /\ stLast' = [op |-> "isEmpty", ret |-> (stTop = nil)]
    /\ UNCHANGED <<stNodes, stTop, stModel>>

StackIdle ==
    /\ stNodes = <<>>
    /\ stTop = nil
    /\ stModel = <<>>
    /\ stLast = NoCall

otherDemoVars == <<userVars, ctxVars, selVars, qsVars, quVars, stVars>>

ListDemosIdle == QuickSortIdle /\ QueueIdle /\ StackIdle

OtherDemosIdle == UserIdle /\ ContextIdle /\ SelectIdle /\ ListDemosIdle

(***************************************************************************)
(* Specifications.                                                         *)
(***************************************************************************)
vars == <<wordVars, httpVars, rateVars, storeVars, poolVars, otherDemoVars>>

InitWords ==
    /\ wcInput \in StringsUpTo(MaxStrLen) \cup TestWordCountInputs
    /\ wcResult = 0
    /\ wcDone = FALSE
    /\ HttpIdle
    /\ RateIdle
    /\ StoreIdle
    /\ PoolIdle
    /\ OtherDemosIdle

NextWords == CallWordCount /\ UNCHANGED <<httpVars, rateVars, storeVars, poolVars, otherDemoVars>>

SpecWords == InitWords /\ [][NextWords]_vars

InitHttp == HttpIdle /\ WordsIdle /\ RateIdle /\ StoreIdle /\ PoolIdle /\ OtherDemosIdle

NextHttp ==
    /\ \E ms \in MiddlewareLists(MaxChain), base \in HandlerNames, r \in Requests :
            ServeChained(ms, base, r)
    /\ UNCHANGED <<wordVars, rateVars, storeVars, poolVars, otherDemoVars>>

SpecHttp == InitHttp /\ [][NextHttp]_vars

InitRate == RateIdle /\ WordsIdle /\ HttpIdle /\ StoreIdle /\ PoolIdle /\ OtherDemosIdle

NextRate ==
    \/ Tick /\ UNCHANGED <<wordVars, httpVars, storeVars, poolVars, otherDemoVars>>
    \/ \E g \in Goroutines, addr \in RemoteAddrs :
            RLBegin(g, addr) /\ UNCHANGED <<wordVars, httpVars, storeVars, poolVars, otherDemoVars>>
    \/ \E g \in Goroutines : RLCheck(g) /\ UNCHANGED <<wordVars, httpVars, storeVars, poolVars, otherDemoVars>>
    \/ \E g \in Goroutines : RLReset(g) /\ UNCHANGED <<wordVars, httpVars, storeVars, poolVars, otherDemoVars>>
    \/ \E g \in Goroutines : RLCount(g) /\ UNCHANGED <<wordVars, httpVars, storeVars, poolVars, otherDemoVars>>
    \/ \E g \in Goroutines : RLRespond(g) /\ UNCHANGED <<wordVars, httpVars, storeVars, poolVars, otherDemoVars>>

SpecRate == InitRate /\ [][NextRate]_vars

InitStore == StoreIdle /\ WordsIdle /\ HttpIdle /\ RateIdle /\ PoolIdle /\ OtherDemosIdle

NextStore ==
    \/ \E p \in Clients, method \in ReadMethods \cup WriteMethods, id \in RequestIDs :
            BSCall(p, method, id) /\ UNCHANGED <<wordVars, httpVars, rateVars, poolVars, otherDemoVars>>
    \/ \E p \in Clients : BSLock(p) /\ UNCHANGED <<wordVars, httpVars, rateVars, poolVars, otherDemoVars>>
    \/ \E p \in Clients : GetBooksBody(p) /\ UNCHANGED <<wordVars, httpVars, rateVars, poolVars, otherDemoVars>>
    \/ \E p \in Clients : GetBookBody(p) /\ UNCHANGED <<wordVars, httpVars, rateVars, poolVars, otherDemoVars>>
    \/ \E p \in Clients : AddBookBody(p) /\ UNCHANGED <<wordVars, httpVars, rateVars, poolVars, otherDemoVars>>
    \/ \E p \in Clients : ExistsCheck(p) /\ UNCHANGED <<wordVars, httpVars, rateVars, poolVars, otherDemoVars>>
    \/ \E p \in Clients : UpdateBookWrite(p) /\ UNCHANGED <<wordVars, httpVars, rateVars, poolVars, otherDemoVars>>
    \/ \E p \in Clients : DeleteBookWrite(p) /\ UNCHANGED <<wordVars, httpVars, rateVars, poolVars, otherDemoVars>>
    \/ \E p \in Clients : BSUnlock(p) /\ UNCHANGED <<wordVars, httpVars, rateVars, poolVars, otherDemoVars>>

SpecStore == InitStore /\ [][NextStore]_vars

notPool == <<wordVars, httpVars, rateVars, storeVars, otherDemoVars>>

InitPool == PoolIdle /\ WordsIdle /\ HttpIdle /\ RateIdle /\ StoreIdle /\ OtherDemosIdle

MainStep ==
    \/ MainStartWorker /\ UNCHANGED notPool
    \/ MainSendJob /\ UNCHANGED notPool
    \/ MainCloseJobs /\ UNCHANGED notPool
    \/ MainStartCloser /\ UNCHANGED notPool
    \/ MainCollect /\ UNCHANGED notPool

WorkerStep(w) ==
    \/ WorkerReceive(w) /\ UNCHANGED notPool
    \/ WorkerSend(w) /\ UNCHANGED notPool
    \/ WorkerDone(w) /\ UNCHANGED notPool

CloserStep ==
    \/ CloserWait /\ UNCHANGED notPool
    \/ CloserClose /\ UNCHANGED notPool

NextPool ==
    \/ MainStep
    \/ \E w \in Workers : WorkerStep(w)
    \/ CloserStep

SpecPool == InitPool /\ [][NextPool]_vars

\* the Go scheduler lets every goroutine that can take a step take one
SpecPoolFair ==
    /\ SpecPool
    /\ WF_vars(MainStep)
    /\ \A w \in Workers : WF_vars(WorkerStep(w))
    /\ WF_vars(CloserStep)

\* the handler served last
ChainedHandler == Chain(<<chBase>>, chMiddlewares)
\* the name of the layer at a height of the handler served last
LayerAt(height) == ChainedHandler[Len(ChainedHandler) - height + 1]

\* body contains the words of phrase, in a row
Contains(body, phrase) ==
    \E i \in 0..(Len(body) - Len(phrase)) :
        \A j \in 1..Len(phrase) : body[i + j] = phrase[j]

\* C2: in Chain(h, m1, ..., mn) the first middleware listed is the outermost
\* wrapper: when the chained handler serves a request, the layer that runs
\* first is m1.
C2_FirstListedRunsFirst ==
    (chServed /\ Len(chMiddlewares) >= 1)
        => LayerAt(chOut.calls[1]) = chMiddlewares[1]

\* the number of maximal runs of non-space characters of s
WordRuns(s) ==
    Cardinality({i \in 1..Len(s) : s[i] # " " /\ (i = 1 \/ s[i - 1] = " ")})

\* C3: for every string of letters and spaces WordCount returns the number of
\* maximal runs of non-space characters.
C3_WordCountIsRuns == wcDone => wcResult = WordRuns(wcInput)


\* how many times the layer at a height was entered while serving
TimesCalled(height) ==
    Cardinality({i \in DOMAIN chOut.calls : chOut.calls[i] = height})

\* the heights at which a middleware sits in the handler served last and was entered
EnteredAs(name) ==
    {k \in 2..Len(ChainedHandler) : LayerAt(k) = name /\ TimesCalled(k) > 0}

\* C5: AuthMiddleware calls the next handler (once) exactly when X-API-Key is
\* "valid-api-key"; for any other or missing key the reply is 401 with a body
\* containing 'Invalid API key' and the next handler is never called.
C5_AuthGuardsNext ==
    chServed =>
        \A k \in EnteredAs("AuthMiddleware") :
            IF chRequest.ApiKey = "valid-api-key"
            THEN TimesCalled(k - 1) = 1
            ELSE /\ TimesCalled(k - 1) = 0
                 /\ chOut.code = StatusUnauthorized
                 /\ Contains(chOut.body, <<"Invalid", "API", "key">>)

\* a request with a wrong key was refused by AuthMiddleware wrapping the tests' handler
C5_Witness ==
    /\ chServed
    /\ chMiddlewares = <<"AuthMiddleware">>
    /\ chBase = "handler"
    /\ chRequest.ApiKey = "invalid-key"
    /\ chOut.code = StatusUnauthorized
    /\ chOut.calls = <<2>>

\* what the handler wrapped by the outermost layer does with the request served last
WrappedOutcome ==
    ServeHTTP(Tail(ChainedHandler),
              [NewRecorder EXCEPT !.calls = <<Len(ChainedHandler)>>], chRequest)

C7_CORSHeadersAndPreflight ==
    chServed =>
        \A k \in EnteredAs("CORSMiddleware") :
            /\ chOut.header["Access-Control-Allow-Origin"] = "*"
            /\ chOut.header["Access-Control-Allow-Methods"] = "GET, POST, PUT, DELETE, OPTIONS"
            /\ chOut.header["Access-Control-Allow-Headers"] = "Content-Type, Authorization"
            /\ IF chRequest.Method = "OPTIONS"
               THEN /\ TimesCalled(k - 1) = 0
                    /\ chOut.wroteHeader
                    /\ chOut.code = StatusOK
                    /\ chOut.body = <<>>
               ELSE TimesCalled(k - 1) = 1

\* an OPTIONS request was answered by CORSMiddleware without the wrapped handler
C7_Witness ==
    /\ chServed
    /\ chMiddlewares = <<"CORSMiddleware">>
    /\ chBase = "handler"
    /\ chRequest.Method = "OPTIONS"
    /\ chOut.calls = <<2>>
    /\ chOut.code = StatusOK


\* the handler goroutines that have answered a request
Answered == {g \in Goroutines : rlHandlers[g].pc = "idle" /\ rlHandlers[g].rank > 0}

\* C1: of the requests from one RemoteAddr counted since the map was last
\* made, the k-th is passed to the next handler when k <= N, and for k > N the
\* reply is 429 'Rate limit exceeded' and the next handler is not called.
C1_KthRequestLimited ==
    \A g \in Answered :
        LET h == rlHandlers[g]
        IN IF h.rank <= RequestsPerMinute
           THEN h.w.calls = <<1>> /\ h.w.code = StatusOK /\ h.w.body = <<"OK">>
           ELSE /\ h.w.calls = <<>>
                /\ h.w.code = StatusTooManyRequests
                /\ Contains(h.w.body, <<"Rate", "limit", "exceeded">>)

\* as in TestRateLimitMiddleware: the third request of a window from one
\* address was refused, after two that passed
C1_Witness ==
    \E g \in Answered :
        /\ rlHandlers[g].rank = RequestsPerMinute + 1
        /\ rlHandlers[g].w.code = StatusTooManyRequests
        /\ lastResetTime = 0
        /\ \A i \in DOMAIN rlWindow : rlWindow[i] = rlHandlers[g].clientIP

\* the map is replaced by an empty one, by a step taken more than a minute
\* after lastResetTime that sets lastResetTime to the current time
ClearedAsAWhole ==
    /\ requestCounts' = EmptyCounts
    /\ now - lastResetTime > Minute
    /\ lastResetTime' = now

\* no key is removed and no count goes down
NothingLost ==
    /\ DOMAIN requestCounts \subseteq DOMAIN requestCounts'
    /\ \A a \in DOMAIN requestCounts : requestCounts'[a] >= requestCounts[a]
    /\ lastResetTime' = lastResetTime

\* C10: the request-count map is only ever cleared as a whole, and only by a
\* request handled more than one minute after lastResetTime, which is then
\* set to the current time; otherwise no entry is removed or decreased.
C10_OnlyMinuteReset == [][ClearedAsAWhole \/ NothingLost]_vars

\* a reset has happened and a request has been counted in the new window
C10_Witness ==
    /\ lastResetTime > Minute
    /\ requestCounts # EmptyCounts
    /\ Len(rlWindow) < rlBegun


\* the goroutines between the return of their lock call and their unlock
InSection == {p \in Clients : bsCalls[p].pc \in {"body", "write", "unlock"}}

\* C4: BookStore is concurrency-safe: GetBooks and GetBook read books while
\* holding the read lock, AddBook, UpdateBook and DeleteBook read and write
\* books and nextID while holding the write lock, and no goroutine is in a
\* writing method's section while another is in any section.
C4_StoreAccessIsLocked ==
    /\ \A p \in InSection :
            IF bsCalls[p].method \in WriteMethods
            THEN mu.writer = p
            ELSE p \in mu.readers
    /\ \A p, q \in InSection :
            (p # q) => (bsCalls[p].method \in ReadMethods /\ bsCalls[q].method \in ReadMethods)
    /\ mu.writer # 0 => mu.readers = {}

\* UpdateBook is about to write a book while a getter waits for the lock
C4_Witness ==
    \E p, q \in Clients :
        /\ bsCalls[p].pc = "write"
        /\ bsCalls[p].method = "UpdateBook"
        /\ bsCalls[q].pc = "lock"
        /\ bsCalls[q].method = "GetBook"
        /\ bsCalls[q].id = bsCalls[p].id


\* the values the results of all jobs make up, each once
AllResults == [x \in {2 * j : j \in Jobs} |-> 1]

\* C8: under every interleaving each job is received by exactly one worker
\* and the values main reads from results are exactly the multiset
\* {2*j : j in 1..numJobs}: no job is lost and none is processed twice.
C8_EachJobOnce ==
    /\ \A j \in Jobs : received[j] <= 1
    /\ \A x \in DOMAIN collected : x \in DOMAIN AllResults /\ collected[x] = 1
    /\ wpMain.pc = "done" =>
            /\ \A j \in Jobs : received[j] = 1
            /\ collected = AllResults

\* main has left its range over results, every job done by some worker
C8_Witness ==
    /\ wpMain.pc = "done"
    /\ collected = AllResults
    /\ \A w \in Workers : workers[w].pc = "exited"

\* every goroutine of WorkerPool has finished
PoolTerminated ==
    /\ wpMain.pc = "done"
    /\ \A w \in Workers : workers[w].pc = "exited"
    /\ closer = "done"

\* results is closed once, after every worker has returned, and nothing panics
PoolClosesSafely ==
    /\ ~panicked
    /\ closes <= 1
    /\ results.closed => (closes = 1 /\ \A w \in Workers : workers[w].pc = "exited")
    /\ \A w \in Workers : workers[w].pc \in {"return", "exited"} => (jobs.closed /\ jobs.buf = <<>>)

\* C9: under fair scheduling WorkerPool terminates: every worker leaves its
\* range loop once jobs is closed and drained, results is closed exactly once
\* and only after every worker has returned (no send on a closed channel), and
\* main's range over results then ends.
C9_PoolTerminates == []PoolClosesSafely /\ <>[](PoolTerminated /\ closes = 1)

\* results has been closed by the closing goroutine and main has finished
C9_Witness ==
    /\ PoolTerminated
    /\ results.closed
    /\ closes = 1
    /\ wg = 0

\* the sum of f over the set S
RECURSIVE SumOver(_, _)
SumOver(f, S) ==
    IF S = {} THEN 0
    ELSE LET a == CHOOSE x \in S : TRUE
         IN f[a] + SumOver(f, S \ {a})

\* the requests of one IP address counted since the map was last made that
\* are within the limit of their map key, so are passed to the next handler
AdmittedFrom(ip) ==
    LET keys == {a \in DOMAIN requestCounts : a.IP = ip}
        within == [a \in keys |->
                    IF requestCounts[a] <= RequestsPerMinute
                    THEN requestCounts[a] ELSE RequestsPerMinute]
    IN SumOver(within, keys)

\* C11: RateLimitMiddleware limits the requests per client IP: requests whose
\* RemoteAddr has the same IP address and different ports are counted against
\* the same limit, so a window admits at most N requests of one IP address.
C11_LimitIsPerIP ==
    \A ip \in {a.IP : a \in RemoteAddrs} : AdmittedFrom(ip) <= RequestsPerMinute

InitUsers == UserIdle /\ WordsIdle /\ HttpIdle /\ RateIdle /\ StoreIdle /\ PoolIdle /\ ContextIdle /\ SelectIdle /\ ListDemosIdle

notUsers == <<wordVars, httpVars, rateVars, storeVars, poolVars, ctxVars, selVars, listVars>>

NextUsers ==
    \/ \E method \in UserMethods, id \in QueryIDs :
            GetUser(method, id) /\ UNCHANGED notUsers
    \/ \E method \in UserMethods, body \in Bodies :
            CreateUser(method, body) /\ UNCHANGED notUsers

SpecUsers == InitUsers /\ [][NextUsers]_vars

\* the step is a call of GetUser that replies with code, and for a JSON reply
\* with the given status, error and data
GetUserReplies(code, status, error, data) ==
    /\ uhResponse'.code = code
    /\ uhResponse'.body = [Status |-> status, Message |-> "", Data |-> data, Error |-> error]

\* C12: GetUser replies 405 for any method other than GET; otherwise 400 with
\* error 'user ID is required' when the id parameter is empty; otherwise 404
\* with error 'user not found' when id is not a key of users; otherwise 200
\* with status 'success' and that user; in every case users is unchanged.
C12_GetUserCascade ==
    [][uhRequest'.handler = "GetUser" =>
        /\ users' = users
        /\ IF uhRequest'.Method # "GET" THEN uhResponse'.code = StatusMethodNotAllowed
           ELSE IF uhRequest'.id = ""
                THEN GetUserReplies(StatusBadRequest, "error", "user ID is required", <<>>)
           ELSE IF uhRequest'.id \notin DOMAIN users
                THEN GetUserReplies(StatusNotFound, "error", "user not found", <<>>)
           ELSE GetUserReplies(StatusOK, "success", "", <<users[uhRequest'.id]>>)]_vars

\* GetUser was asked for a posted user and found it
C12_Witness ==
    /\ uhRequest.handler = "GetUser"
    /\ uhRequest.Method = "GET"
    /\ uhRequest.id = "2"
    /\ uhResponse.code = StatusOK
    /\ uhResponse.body.Data = <<users["2"]>>

\* the message for the first field of u that fails validation, "" for none
FirstFailing(u) ==
    LET failing ==
            <<u.FirstName = "", u.LastName = "", u.Email = "", u.Age < 0>>
        messages ==
            <<"first name cannot be empty", "last name cannot be empty",
              "email cannot be empty", "age cannot be negative">>
        failed == {i \in 1..4 : failing[i]}
    IN IF failed = {} THEN ""
       ELSE messages[CHOOSE i \in failed : \A j \in failed : i <= j]

\* C13: CreateUser on a POST whose body decodes to a user passing validation
\* stores it under the key decimal(user.ID) and replies 201 'User created
\* successfully'; when the user fails validation it replies 400 with the
\* message of the first failing field and users is unchanged.
C13_CreateUserValidates ==
    [][(uhRequest'.handler = "CreateUser" /\ uhRequest'.Method = "POST" /\ uhRequest'.body.ok) =>
        LET u == uhRequest'.body.user
        IN IF FirstFailing(u) = ""
           THEN /\ DOMAIN users' = DOMAIN users \cup {ToString(u.ID)}
                /\ users'[ToString(u.ID)] = u
                /\ \A k \in DOMAIN users \ {ToString(u.ID)} : users'[k] = users[k]
                /\ uhResponse'.code = StatusCreated
                /\ uhResponse'.body.Status = "success"
                /\ uhResponse'.body.Message = "User created successfully"
           ELSE /\ users' = users
                /\ uhResponse'.code = StatusBadRequest
                /\ uhResponse'.body.Status = "error"
                /\ uhResponse'.body.Error = FirstFailing(u)]_vars

\* a user with several empty fields was refused and a valid one was stored
C13_Witness ==
    /\ uhRequest.handler = "CreateUser"
    /\ uhRequest.body.ok
    /\ uhRequest.body.user.FirstName = "Jane"
    /\ uhRequest.body.user.LastName = ""
    /\ uhRequest.body.user.Age < 0
    /\ uhResponse.code = StatusBadRequest
    /\ uhResponse.body.Error = "last name cannot be empty"
    /\ "2" \in DOMAIN users

(***************************************************************************)
(* The context demo: main and its goroutines, from the start of main.      *)
(***************************************************************************)
InitContext ==
    /\ ContextIdle /\ WordsIdle /\ HttpIdle /\ RateIdle /\ StoreIdle /\ PoolIdle
    /\ UserIdle /\ SelectIdle /\ ListDemosIdle

notContext == <<wordVars, httpVars, rateVars, storeVars, poolVars, userVars, selVars, listVars>>

CtxMainStep ==
    \/ BasicContextExample /\ UNCHANGED notContext
    \/ TimeoutStart /\ UNCHANGED notContext
    \/ TimeoutSelect /\ UNCHANGED notContext
    \/ CancelStart /\ UNCHANGED notContext
    \/ CancelCancel /\ UNCHANGED notContext
    \/ CancelReturn /\ UNCHANGED notContext
    \/ ContextWithValues /\ UNCHANGED notContext
    \/ DeadlineStart /\ UNCHANGED notContext
    \/ DeadlineWait /\ UNCHANGED notContext
    \/ PropagateStart /\ UNCHANGED notContext
    \/ ParentCancel /\ UNCHANGED notContext
    \/ PropagateWait /\ UNCHANGED notContext
    \/ MainRest /\ UNCHANGED notContext

CtxGoStep(g) ==
    \/ g = "timeoutWorker" /\ TimeoutWorkerStart /\ UNCHANGED notContext
    \/ g = "timeoutWorker" /\ TimeoutWorkerFinish /\ UNCHANGED notContext
    \/ g \in PollingWorkers /\ WorkerSelect(g) /\ UNCHANGED notContext
    \/ g \in PollingWorkers /\ WorkerWake(g) /\ UNCHANGED notContext

CtxTimeStep == Advance /\ UNCHANGED notContext

NextContext ==
    \/ CtxMainStep
    \/ \E g \in CtxGoroutines : CtxGoStep(g)
    \/ CtxTimeStep

SpecContext == InitContext /\ [][NextContext]_vars

\* the Go scheduler runs every goroutine that can run, and time passes
SpecContextFair ==
    /\ SpecContext
    /\ WF_vars(CtxMainStep)
    /\ \A g \in CtxGoroutines : WF_vars(CtxGoStep(g))
    /\ WF_vars(CtxTimeStep)

PastTimeoutSelect == ctxMainPc \notin {"basic", "timeout_start", "timeout_select"}

\* C14: in DoSomethingWithTimeout the timeout comes before the work is done,
\* so the select takes the ctx.Done() case and prints "Work cancelled", never
\* "Work finished successfully"; and the goroutine's "Work completed!" is
\* not printed at any time of the program's run.
C14_WorkNeverCompleted ==
    /\ PastTimeoutSelect =>
            "Work cancelled: context deadline exceeded" \in ctxPrinted
    /\ "Work finished successfully" \notin ctxPrinted
    /\ "Work completed!" \notin ctxPrinted

\* the select of DoSomethingWithTimeout always takes the ctx.Done() case
TimeoutWins ==
    /\ PastTimeoutSelect =>
            "Work cancelled: context deadline exceeded" \in ctxPrinted
    /\ "Work finished successfully" \notin ctxPrinted

BothExited == ctxGo["parentWorker"].pc = "returned" /\ ctxGo["childWorker"].pc = "returned"

\* C15: from parentCancel() on parentCtx and childCtx are both done; both
\* goroutines then come to see Done and return and wg.Wait() returns ("Both
\* goroutines exited"); that line is printed before childCtx's own deadline.
C15_CancellationPropagates ==
    /\ []("parentCtx" \in ctxCancelled => Done("parentCtx") /\ Done("childCtx"))
    /\ (ctxMainPc = "propagate_wait")
            ~> (BothExited /\ "Both goroutines exited" \in ctxPrinted)
    /\ []("Both goroutines exited" \in ctxPrinted => ctxClock < ctxDeadline["childCtx"])

C15_Witness ==
    /\ "Both goroutines exited" \in ctxPrinted
    /\ "Child context goroutine: cancelled" \in ctxPrinted
    /\ "Child context goroutine: working" \in ctxPrinted
    /\ ctxClock < ctxDeadline["childCtx"]

(***************************************************************************)
(* The placeholder of concurency-practice.  It is one process of its own;  *)
(* the specification runs it beside the context demo, another process,     *)
(* with which it shares nothing.                                           *)
(***************************************************************************)
InitPlaceholder == InitContext

notSelect == <<wordVars, httpVars, rateVars, storeVars, poolVars, userVars, ctxVars, listVars>>

NextPlaceholder ==
    \/ SelMakeChannels /\ UNCHANGED notSelect
    \/ Select /\ UNCHANGED notSelect
    \/ NextContext

SpecPlaceholder == InitPlaceholder /\ [][NextPlaceholder]_vars

\* C16: no goroutine ever sends on ch1 or ch2, so no receive case of the
\* select is ever ready; the select never completes and prints neither
\* "ch1:" nor "ch2:", and once main is parked in it main takes no further
\* step.
C16_SelectNeverCompletes ==
    /\ [](\A ch \in SelChannels : ~RecvReady(ch))
    /\ [](selPc # "returned" /\ selPrinted = {})
    /\ [][selPc = "parked" => UNCHANGED selVars]_vars

C16_Witness == selPc = "parked" /\ selPrinted = {} /\ ~ENABLED Select

(***************************************************************************)
(* quickSort: main's call on any slice, statement by statement.            *)
(***************************************************************************)
InitQuickSort ==
    /\ qsInput \in Slices
    /\ qsArr = qsInput
    /\ qsStack = <<>>
    /\ qsState = "idle"
    /\ qsFault = FALSE
    /\ QueueIdle /\ StackIdle
    /\ WordsIdle /\ HttpIdle /\ RateIdle /\ StoreIdle /\ PoolIdle
    /\ UserIdle /\ ContextIdle /\ SelectIdle

notQuickSort ==
    <<wordVars, httpVars, rateVars, storeVars, poolVars, userVars, ctxVars, selVars,
      quVars, stVars>>

NextQuickSort ==
    \/ CallQuickSort /\ UNCHANGED notQuickSort
    \/ QsEntry /\ UNCHANGED notQuickSort
    \/ QsOuter /\ UNCHANGED notQuickSort
    \/ QsScanS /\ UNCHANGED notQuickSort
    \/ QsScanE /\ UNCHANGED notQuickSort
    \/ QsSwap /\ UNCHANGED notQuickSort
    \/ QsSortLow /\ UNCHANGED notQuickSort
    \/ QsSortHigh /\ UNCHANGED notQuickSort
    \/ QsReturn /\ UNCHANGED notQuickSort

SpecQuickSort == InitQuickSort /\ [][NextQuickSort]_vars

\* the one goroutine keeps running while it has a statement to run
SpecQuickSortFair == SpecQuickSort /\ WF_vars(NextQuickSort)

Ascending(a) == \A i, j \in DOMAIN a : i < j => a[i] <= a[j]

Occurrences(a, v) == Cardinality({i \in DOMAIN a : a[i] = v})

SameContents(a, b) ==
    /\ DOMAIN a = DOMAIN b
    /\ \A v \in 1 .. MaxElem : Occurrences(a, v) = Occurrences(b, v)

\* C17: for every slice, quickSort(arr, 0, len(arr)-1) returns; no call
\* indexes arr outside its own [low, high]; and on return arr is in ascending
\* order and holds what it held before, each value as often.
C17_QuickSortSorts ==
    /\ <>(qsState = "returned")
    /\ [](~qsFault /\ qsState # "panicked")
    /\ [](qsState = "returned" => Ascending(qsArr) /\ SameContents(qsArr, qsInput))

C17_Witness ==
    /\ qsState = "returned"
    /\ len(qsArr) = MaxArrLen
    /\ qsArr # qsInput
    /\ \E i, j \in DOMAIN qsArr : i # j /\ qsArr[i] = qsArr[j]
    /\ ~qsFault

(***************************************************************************)
(* The Queue under any sequence of addElement and removeElement calls.     *)
(***************************************************************************)
InitQueue ==
    /\ QueueIdle /\ QuickSortIdle /\ StackIdle
    /\ WordsIdle /\ HttpIdle /\ RateIdle /\ StoreIdle /\ PoolIdle
    /\ UserIdle /\ ContextIdle /\ SelectIdle

notQueue ==
    <<wordVars, httpVars, rateVars, storeVars, poolVars, userVars, ctxVars, selVars,
      qsVars, stVars>>

NextQueue ==
    \/ \E val \in NodeValues : addElement(val) /\ UNCHANGED notQueue
    \/ removeElement /\ UNCHANGED notQueue

SpecQueue == InitQueue /\ [][NextQueue]_vars

\* the queue as the list hanging from front
QueueNodes == NodesFrom(quNodes, quFront, Len(quNodes) + 1)

QueueIsFIFO ==
    /\ ValuesFrom(quNodes, quFront) = quModel
    /\ (quRear = nil) <=> (quFront = nil)
    /\ quFront # nil =>
            /\ quRear = QueueNodes[Len(QueueNodes)]
            /\ quNodes[quRear].next = nil

\* a call of removeElement, seen as a step: what it must return and leave
RemoveElementStep ==
    quLast'.op = "removeElement" =>
        IF quModel = <<>>
        THEN quLast'.ret = 0 /\ quFront' = nil /\ quRear' = nil /\ quModel' = <<>>
        ELSE quLast'.ret = Head(quModel) /\ quModel' = Tail(quModel)

\* C18: after any addElement and removeElement calls the values of the nodes
\* reached from front are the values added and not yet removed, oldest
\* first; rear is nil exactly when front is, and is otherwise the last node
\* reached from front; removeElement returns the oldest value, and on an
\* empty queue returns 0 and leaves the queue empty.
C18_QueueIsFIFO == []QueueIsFIFO /\ [][RemoveElementStep]_vars

C18_Witness ==
    /\ quLast.op = "removeElement"
    /\ quFront = nil /\ quRear = nil
    /\ Len(quNodes) = MaxAdds
    /\ quLast.ret # 0

(***************************************************************************)
(* The Stack under any sequence of push, pop, topNode and isEmpty calls.   *)
(***************************************************************************)
InitStack ==
    /\ StackIdle /\ QuickSortIdle /\ QueueIdle
    /\ WordsIdle /\ HttpIdle /\ RateIdle /\ StoreIdle /\ PoolIdle
    /\ UserIdle /\ ContextIdle /\ SelectIdle

notStack ==
    <<wordVars, httpVars, rateVars, storeVars, poolVars, userVars, ctxVars, selVars,
      qsVars, quVars>>

NextStack ==
    \/ \E x \in NodeValues : push(x) /\ UNCHANGED notStack
    \/ pop /\ UNCHANGED notStack
    \/ topNode /\ UNCHANGED notStack
    \/ isEmpty /\ UNCHANGED notStack

SpecStack == InitStack /\ [][NextStack]_vars

\* a call, seen as a step: what it must return and leave
StackCallStep ==
    /\ stLast'.op = "pop" =>
            IF stModel = <<>>
            THEN stLast'.ret = 0 /\ stTop' = nil /\ stModel' = <<>>
            ELSE stLast'.ret = Head(stModel) /\ stModel' = Tail(stModel)
    /\ stLast'.op = "topNode" =>
            /\ stLast'.ret = IF stModel = <<>> THEN 0 ELSE Head(stModel)
            /\ UNCHANGED <<stTop, stNodes, stModel>>
    /\ stLast'.op = "isEmpty" =>
            /\ stLast'.ret = (stModel = <<>>)
            /\ UNCHANGED <<stTop, stNodes, stModel>>

\* C19: after any push and pop calls the values of the nodes reached from
\* top are the values pushed and not yet popped, newest first; pop returns
\* and removes the newest, topNode returns it and changes nothing, isEmpty
\* is true exactly when no pushed value is left, and pop and topNode on an
\* empty stack return 0 and leave it empty.
C19_StackIsLIFO ==
    /\ [](ValuesFrom(stNodes, stTop) = stModel)
    /\ [][StackCallStep]_vars

C19_Witness ==
    /\ stLast.op = "pop"
    /\ stLast.ret # 0
    /\ stTop # nil
    /\ Len(stNodes) = MaxPushes
    /\ Len(stModel) < MaxPushes - 1

=============================================================================
